---- MODULE Spec2Model ----
(***************************************************************************)
(* Model of sierpinski.c: the accumulator line rasterizer draw_line, the   *)
(* recursive generator draw_sierpinski, and main, which runs the generator *)
(* twice and then presents the screen.                                     *)
(*                                                                         *)
(* Spec      runs main.  The arguments of its two draw_sierpinski calls    *)
(*           are drawn from Inputs (main's two literal triangles and two   *)
(*           small ones of the same shape, at every depth of Depths), so   *)
(*           that properties stated for every triangle and depth are       *)
(*           checked on more than the two literal calls.                   *)
(* SpecLine  calls draw_line on every pair of points of a bounded grid, in *)
(*           both directions, and records the cells it plots.              *)
(***************************************************************************)
EXTENDS Integers, Naturals, Sequences, FiniteSets, TLC

VARIABLES
    pc,       \* control point of main (Spec) or of the line harness (SpecLine)
    args,     \* Spec: the arguments of the two draw_sierpinski calls;
              \* SpecLine: the segment <<x0, y0, x1, y1>>
    stack,    \* call stack of draw_sierpinski frames, innermost last
    lines,    \* log of the draw_line invocations made by draw_sierpinski
    ncalls,   \* number of draw_sierpinski invocations, per top-level call
    nplots,   \* number of mvaddch calls, per top-level call
    surfErr,  \* some mvaddch, mvaddstr or refresh has returned ERR
    status,   \* exit status of main, "none" while it runs
    plots     \* SpecLine: the cell sequences plotted by each draw_line call

vars == <<pc, args, stack, lines, ncalls, nplots, surfErr, status, plots>>

-----------------------------------------------------------------------------
(* Bounds *)

\* deepest recursion depth passed to draw_sierpinski
MaxDepth == 2

\* the grid of SpecLine is (-GridN..GridN) x (-GridN..GridN)
GridN == 3

\* frames the stack holds before the process dies of stack exhaustion
MaxStack == MaxDepth + 3

\* iterations of one draw_line loop the model evaluates; the longest segment
\* of the model (main's base edges, 131 cells) stays well below it
MaxIter == 512

Depths == -1..MaxDepth

Grid == (0 - GridN)..GridN

(* Program constants *)

EXIT_SUCCESS == 0

EXIT_FAILURE == 1

\* the triangles of main's two calls (lines 52 and 53) and two small triangles
\* of the same shape (apex A above the middle of a horizontal base B-C): one
\* whose sides halve exactly and one with odd sides, like main's
Triangles ==
    { <<65, 0, 0, 65, 130, 65>>,
      <<200, 0, 135, 65, 265, 65>>,
      <<4, 0, 0, 4, 8, 4>>,
      <<5, 0, 0, 5, 10, 5>> }

Inputs == { [tri |-> t, depth |-> d] : t \in Triangles, d \in Depths }

-----------------------------------------------------------------------------
(* C integer division: truncates toward zero *)
CDiv(a, b) == IF a >= 0 THEN a \div b ELSE 0 - ((0 - a) \div b)

-----------------------------------------------------------------------------
(* draw_line *)

\* mvaddch(y, x, ch) writes the cell in column x of row y
Plot(y, x) == <<x, y>>

\* the loop test: x0 <= x1 (y0 <= y1) when counting up, >= when counting down
InRange(v, end, s) == IF s = 1 THEN v <= end ELSE v >= end

\* the decision test with a strict comparison
StepNeededStrict(dec) == dec < 0

\* if (dec <= 0)
StepNeeded(dec) == dec <= 0

\* the loop increment taking two cells at a time
AdvanceTwo(v, s) == v + 2 * s

\* the loop increment x0++ / x0-- (y0++ / y0--)
Advance(v, s) == v + s

\* one iteration of an x-major loop on the loop state <<x0, y0, dec, cells>>:
\*     if (dec <= 0) { dec += dx; y0++; }  mvaddch(y0, x0, ch);  dec -= dy;
\* followed by the loop increment x0++ (sx = 1) or x0-- (sx = -1); sy gives
\* the direction of y0++ / y0--
LoopXBody(s, dx, dy, sx, sy) ==
    LET step == StepNeeded(s[3])
        d    == IF step THEN s[3] + dx ELSE s[3]
        y    == IF step THEN s[2] + sy ELSE s[2]
    IN  <<Advance(s[1], sx), y, d - dy, Append(s[4], Plot(y, s[1]))>>

\* one iteration of a y-major loop:
\*     if (dec <= 0) { dec += dy; x0++; }  mvaddch(y0, x0, ch);  dec -= dx;
\* followed by the loop increment y0++ or y0--
LoopYBody(s, dx, dy, sx, sy) ==
    LET step == StepNeeded(s[3])
        d    == IF step THEN s[3] + dy ELSE s[3]
        x    == IF step THEN s[1] + sx ELSE s[1]
    IN  <<x, Advance(s[2], sy), d - dx, Append(s[4], Plot(s[2], x))>>

RECURSIVE RunX(_, _, _, _, _, _, _)
\* for ( ; x0 <= x1; x0++) body: the loop state after at most n iterations.
\* The iterations are split in halves only to keep the evaluation shallow;
\* the loop ends where its test fails.
RunX(s, n, x1, dx, dy, sx, sy) ==
    IF n = 0 \/ ~InRange(s[1], x1, sx) THEN s
    ELSE IF n = 1 THEN LoopXBody(s, dx, dy, sx, sy)
    ELSE RunX(RunX(s, n \div 2, x1, dx, dy, sx, sy), n - n \div 2,
              x1, dx, dy, sx, sy)

RECURSIVE RunY(_, _, _, _, _, _, _)
\* for ( ; y0 <= y1; y0++) body
RunY(s, n, y1, dx, dy, sx, sy) ==
    IF n = 0 \/ ~InRange(s[2], y1, sy) THEN s
    ELSE IF n = 1 THEN LoopYBody(s, dx, dy, sx, sy)
    ELSE RunY(RunY(s, n \div 2, y1, dx, dy, sx, sy), n - n \div 2,
              y1, dx, dy, sx, sy)

\* the cells plotted by an x-major loop entered with the given x0, y0, dec
LoopX(x0, y0, x1, dx, dy, sx, sy, dec) ==
    RunX(<<x0, y0, dec, <<>>>>, MaxIter, x1, dx, dy, sx, sy)[4]

\* the cells plotted by a y-major loop entered with the given x0, y0, dec
LoopY(x0, y0, y1, dx, dy, sx, sy, dec) ==
    RunY(<<x0, y0, dec, <<>>>>, MaxIter, y1, dx, dy, sx, sy)[4]

\* draw_line with the last octant stepping y the wrong way (y0++ for y0--)
DrawLineWrongSign(x0, y0, x1, y1) ==
    IF x1 >= x0
    THEN LET dx == x1 - x0 IN
         IF y1 >= y0
         THEN LET dy == y1 - y0 IN
              IF dx >= dy THEN LoopX(x0, y0, x1, dx, dy, 1, 1, dx)
                          ELSE LoopY(x0, y0, y1, dx, dy, 1, 1, dy)
         ELSE LET dy == y0 - y1 IN
              IF dx >= dy THEN LoopX(x0, y0, x1, dx, dy, 1, -1, dx)
                          ELSE LoopY(x0, y0, y1, dx, dy, 1, -1, dy)
    ELSE LET dx == x0 - x1 IN
         IF y1 >= y0
         THEN LET dy == y1 - y0 IN
              IF dx >= dy THEN LoopX(x0, y0, x1, dx, dy, -1, 1, dx)
                          ELSE LoopY(x0, y0, y1, dx, dy, -1, 1, dy)
         ELSE LET dy == y0 - y1 IN
              IF dx >= dy THEN LoopX(x0, y0, x1, dx, dy, -1, 1, dx)
                          ELSE LoopY(x0, y0, y1, dx, dy, -1, -1, dy)

\* the sequence of cells draw_line(x0, y0, x1, y1, ch) plots, in order
DrawLine(x0, y0, x1, y1) ==
    IF x1 >= x0
    THEN LET dx == x1 - x0 IN
         IF y1 >= y0
         THEN LET dy == y1 - y0 IN
              IF dx >= dy THEN LoopX(x0, y0, x1, dx, dy, 1, 1, dx)
                          ELSE LoopY(x0, y0, y1, dx, dy, 1, 1, dy)
         ELSE LET dy == y0 - y1 IN
              IF dx >= dy THEN LoopX(x0, y0, x1, dx, dy, 1, -1, dx)
                          ELSE LoopY(x0, y0, y1, dx, dy, 1, -1, dy)
    ELSE LET dx == x0 - x1 IN
         IF y1 >= y0
         THEN LET dy == y1 - y0 IN
              IF dx >= dy THEN LoopX(x0, y0, x1, dx, dy, -1, 1, dx)
                          ELSE LoopY(x0, y0, y1, dx, dy, -1, 1, dy)
         ELSE LET dy == y0 - y1 IN
              IF dx >= dy THEN LoopX(x0, y0, x1, dx, dy, -1, -1, dx)
                          ELSE LoopY(x0, y0, y1, dx, dy, -1, -1, dy)

-----------------------------------------------------------------------------
(* draw_sierpinski *)

\* the base case taken one level early
IsBaseEarly(depth) == depth <= 1

\* if (depth == 0) return;
IsBase(depth) == depth = 0

\* the statements with the own edges drawn before the recursive calls
BodyEdgesFirst == <<"AB", "BC", "CA", "left", "right", "upper">>

\* the statements of lines 76-82 in order: three recursive calls, then three
\* draw_line calls
Body == <<"left", "right", "upper", "AB", "BC", "CA">>

\* the triangle passed to the recursive call of line 76, 77 or 78
Child(t, which) ==
    LET ax == t[1]  ay == t[2]  bx == t[3]  by == t[4]  cx == t[5]  cy == t[6]
    IN  CASE which = "left" ->
               <<bx + CDiv(ax - bx, 2), ay + CDiv(by - ay, 2), bx, by, ax, by>>
          [] which = "right" ->
               <<ax + CDiv(cx - ax, 2), ay + CDiv(cy - ay, 2), ax, by, cx, cy>>
          [] which = "upper" ->
               <<ax, ay, bx + CDiv(ax - bx, 2), ay + CDiv(by - ay, 2),
                 ax + CDiv(cx - ax, 2), ay + CDiv(cy - ay, 2)>>

\* the arguments <<x0, y0, x1, y1>> of the draw_line call of line 80, 81 or 82
Edge(t, which) ==
    CASE which = "AB" -> <<t[1], t[2], t[3], t[4]>>
      [] which = "BC" -> <<t[3], t[4], t[5], t[6]>>
      [] which = "CA" -> <<t[5], t[6], t[1], t[2]>>

IsCall(s) == s \in {"left", "right", "upper"}

IsEdge(s) == s \in {"AB", "BC", "CA"}

\* a frame of draw_sierpinski: its arguments, the index in Body of the next
\* statement, and (for reference) the path of recursive calls leading to it
Frame(t, depth, path) == [tri |-> t, depth |-> depth, at |-> 1, path |-> path]

Top == stack[Len(stack)]

\* the top-level call of main in progress: 1 (line 52) or 2 (line 53)
CallNo == IF pc = "call1" THEN 1 ELSE 2

Pop == SubSeq(stack, 1, Len(stack) - 1)

SetTopAt(k) == [stack EXCEPT ![Len(stack)].at = k]

\* main's control point after the call in progress returns
AfterCall == IF pc = "call1" THEN "call2" ELSE "mvaddstr"

-----------------------------------------------------------------------------
(* Spec: main *)

Init ==
    /\ pc = "init"
    /\ args \in [1..2 -> Inputs]
    /\ stack = <<>>
    /\ lines = <<>>
    /\ ncalls = [k \in 1..2 |-> 0]
    /\ nplots = [k \in 1..2 |-> 0]
    /\ surfErr = FALSE
    /\ status = "none"
    /\ plots = <<>>

\* lines 46-50: init(); on failure main returns EXIT_FAILURE
MainInit ==
    /\ pc = "init"
    /\ \E ok \in BOOLEAN :
         IF ok THEN pc' = "call1" /\ status' = status
               ELSE pc' = "exit" /\ status' = EXIT_FAILURE
    /\ UNCHANGED <<args, stack, lines, ncalls, nplots, surfErr, plots>>

\* lines 52, 53: main calls draw_sierpinski
MainCall ==
    /\ pc \in {"call1", "call2"}
    /\ stack = <<>>
    /\ stack' = <<Frame(args[CallNo].tri, args[CallNo].depth, <<>>)>>
    /\ ncalls' = [ncalls EXCEPT ![CallNo] = @ + 1]
    /\ UNCHANGED <<pc, args, lines, nplots, surfErr, status, plots>>

\* lines 73-74: the base case returns at once
SierpinskiBase ==
    /\ stack # <<>>
    /\ pc \in {"call1", "call2"}
    /\ IsBase(Top.depth)
    /\ stack' = Pop
    /\ pc' = IF Len(stack) = 1 THEN AfterCall ELSE pc
    /\ UNCHANGED <<args, lines, ncalls, nplots, surfErr, status, plots>>

\* lines 76-78: the next recursive call; the process dies when the stack is
\* exhausted
SierpinskiRecurse ==
    /\ stack # <<>>
    /\ pc \in {"call1", "call2"}
    /\ ~IsBase(Top.depth)
    /\ Top.at <= Len(Body)
    /\ IsCall(Body[Top.at])
    /\ IF Len(stack) < MaxStack
       THEN /\ stack' = Append(SetTopAt(Top.at + 1),
                               Frame(Child(Top.tri, Body[Top.at]),
                                     Top.depth - 1,
                                     Append(Top.path, Body[Top.at])))
            /\ ncalls' = [ncalls EXCEPT ![CallNo] = @ + 1]
            /\ pc' = pc
       ELSE /\ pc' = "crashed"
            /\ UNCHANGED <<stack, ncalls>>
    /\ UNCHANGED <<args, lines, nplots, surfErr, status, plots>>

\* lines 80-82: the next draw_line call; each of its mvaddch calls may return
\* ERR, which draw_line ignores
SierpinskiEdge ==
    /\ stack # <<>>
    /\ pc \in {"call1", "call2"}
    /\ ~IsBase(Top.depth)
    /\ Top.at <= Len(Body)
    /\ IsEdge(Body[Top.at])
    /\ LET e == Edge(Top.tri, Body[Top.at])
           n == Len(DrawLine(e[1], e[2], e[3], e[4]))
       IN  /\ lines' = Append(lines, [call |-> CallNo, owner |-> Top.path,
                                      edge |-> Body[Top.at], seg |-> e, n |-> n])
           /\ nplots' = [nplots EXCEPT ![CallNo] = @ + n]
    /\ \E err \in BOOLEAN : surfErr' = (surfErr \/ err)
    /\ stack' = SetTopAt(Top.at + 1)
    /\ UNCHANGED <<pc, args, ncalls, status, plots>>

\* line 83: the function returns
SierpinskiReturn ==
    /\ stack # <<>>
    /\ pc \in {"call1", "call2"}
    /\ ~IsBase(Top.depth)
    /\ Top.at = Len(Body) + 1
    /\ stack' = Pop
    /\ pc' = IF Len(stack) = 1 THEN AfterCall ELSE pc
    /\ UNCHANGED <<args, lines, ncalls, nplots, surfErr, status, plots>>

\* lines 55-56: the two mvaddstr calls, results ignored
MainMvaddstr ==
    /\ pc = "mvaddstr"
    /\ \E err \in BOOLEAN : surfErr' = (surfErr \/ err)
    /\ pc' = "refresh"
    /\ UNCHANGED <<args, stack, lines, ncalls, nplots, status, plots>>

\* line 58: refresh(), result ignored
MainRefresh ==
    /\ pc = "refresh"
    /\ \E err \in BOOLEAN : surfErr' = (surfErr \/ err)
    /\ pc' = "getch"
    /\ UNCHANGED <<args, stack, lines, ncalls, nplots, status, plots>>

\* line 59: getch()
MainGetch ==
    /\ pc = "getch"
    /\ pc' = "deinit"
    /\ UNCHANGED <<args, stack, lines, ncalls, nplots, surfErr, status, plots>>

\* lines 61-62: deinit(); return EXIT_SUCCESS
MainExit ==
    /\ pc = "deinit"
    /\ pc' = "exit"
    /\ status' = EXIT_SUCCESS
    /\ UNCHANGED <<args, stack, lines, ncalls, nplots, surfErr, plots>>

Next ==
    \/ MainInit
    \/ MainCall
    \/ SierpinskiBase
    \/ SierpinskiRecurse
    \/ SierpinskiEdge
    \/ SierpinskiReturn
    \/ MainMvaddstr
    \/ MainRefresh
    \/ MainGetch
    \/ MainExit

Spec == Init /\ [][Next]_vars

-----------------------------------------------------------------------------
(* SpecLine: draw_line on every segment of the grid, in both directions *)

InitLine ==
    /\ pc = "line"
    /\ args \in Grid \X Grid \X Grid \X Grid
    /\ stack = <<>>
    /\ lines = <<>>
    /\ ncalls = [k \in 1..2 |-> 0]
    /\ nplots = [k \in 1..2 |-> 0]
    /\ surfErr = FALSE
    /\ status = "none"
    /\ plots = <<>>

\* draw_line(x0, y0, x1, y1, ch)
LineForward ==
    /\ pc = "line"
    /\ Len(plots) = 0
    /\ plots' = <<DrawLine(args[1], args[2], args[3], args[4])>>
    /\ UNCHANGED <<pc, args, stack, lines, ncalls, nplots, surfErr, status>>

\* draw_line(x1, y1, x0, y0, ch)
LineBackward ==
    /\ pc = "line"
    /\ Len(plots) = 1
    /\ plots' = Append(plots, DrawLine(args[3], args[4], args[1], args[2]))
    /\ UNCHANGED <<pc, args, stack, lines, ncalls, nplots, surfErr, status>>

NextLine ==
    \/ LineForward
    \/ LineBackward

SpecLine == InitLine /\ [][NextLine]_vars

-----------------------------------------------------------------------------
(* Properties of draw_line, checked under SpecLine *)

Abs(a) == IF a >= 0 THEN a ELSE 0 - a

Sgn(a) == IF a > 0 THEN 1 ELSE IF a < 0 THEN 0 - 1 ELSE 0

CellSet(cells) == { cells[i] : i \in DOMAIN cells }

\* the segment of the k-th draw_line call of SpecLine: the first call draws
\* p0 -> p1, the second p1 -> p0
SegOf(k) == IF k = 1 THEN args ELSE <<args[3], args[4], args[1], args[2]>>

\* extent of the segment along its major and its minor axis
Major == IF Abs(args[3] - args[1]) >= Abs(args[4] - args[2])
         THEN Abs(args[3] - args[1]) ELSE Abs(args[4] - args[2])

Minor == IF Abs(args[3] - args[1]) >= Abs(args[4] - args[2])
         THEN Abs(args[4] - args[2]) ELSE Abs(args[3] - args[1])

\* C1 as stated: for all points p0 and p1, draw_line(p0, p1) and
\* draw_line(p1, p0) plot the same set of cells.
C1_DirectionSymmetry ==
    Len(plots) = 2 => CellSet(plots[1]) = CellSet(plots[2])

\* C1 amended: draw_line(p0, p1) and draw_line(p1, p0) plot the same set of
\* cells exactly when the segment is horizontal, vertical or an exact
\* diagonal (min(|dx|,|dy|) is 0 or equals max(|dx|,|dy|)); for every other
\* segment the two sets differ.
C1_SymmetryIffAxisOrDiagonal ==
    Len(plots) = 2 =>
        ((CellSet(plots[1]) = CellSet(plots[2])) <=> (Minor = 0 \/ Minor = Major))

\* a diagonal drawn both ways: same cells, opposite order
C1_Witness ==
    /\ Len(plots) = 2
    /\ Minor = Major
    /\ Major >= 2
    /\ CellSet(plots[1]) = CellSet(plots[2])
    /\ plots[1] # plots[2]

\* C2: for every point p, draw_line(p, p) makes exactly one plot, of p itself.
C2_ZeroLength ==
    \A k \in DOMAIN plots :
        (args[1] = args[3] /\ args[2] = args[4]) =>
            plots[k] = << <<args[1], args[2]>> >>

C2_Witness ==
    /\ Len(plots) = 2
    /\ args = <<1, 0 - 2, 1, 0 - 2>>
    /\ plots[1] = << <<1, 0 - 2>> >>

\* C3: every cell plotted after the first differs from the cell plotted just
\* before it by at most 1 in x and at most 1 in y.
C3_EightConnected ==
    \A k \in DOMAIN plots :
        \A i \in 2..Len(plots[k]) :
            /\ Abs(plots[k][i][1] - plots[k][i - 1][1]) <= 1
            /\ Abs(plots[k][i][2] - plots[k][i - 1][2]) <= 1

\* a segment drawn with both a straight and a diagonal move
C3_Witness ==
    /\ Len(plots) >= 1
    /\ Len(plots[1]) >= 4
    /\ \E i \in 2..Len(plots[1]) :
          /\ plots[1][i][1] # plots[1][i - 1][1]
          /\ plots[1][i][2] # plots[1][i - 1][2]
    /\ \E i \in 2..Len(plots[1]) :
          \/ plots[1][i][1] = plots[1][i - 1][1]
          \/ plots[1][i][2] = plots[1][i - 1][2]

\* the cell the closed form gives for the k-th plot (k = 0..M) of the segment
\* seg: k along the major axis and floor(k*m/M) along the minor axis from p0,
\* each toward p1
ClosedFormCell(seg, k) ==
    LET dx == seg[3] - seg[1]
        dy == seg[4] - seg[2]
        M  == IF Abs(dx) >= Abs(dy) THEN Abs(dx) ELSE Abs(dy)
        m  == IF Abs(dx) >= Abs(dy) THEN Abs(dy) ELSE Abs(dx)
        j  == (k * m) \div M
    IN  IF Abs(dx) >= Abs(dy)
        THEN <<seg[1] + k * Sgn(dx), seg[2] + j * Sgn(dy)>>
        ELSE <<seg[1] + j * Sgn(dx), seg[2] + k * Sgn(dy)>>

\* C10: for p0 # p1, with M = max(|dx|,|dy|) and m = min(|dx|,|dy|), draw_line
\* plots exactly M+1 cells, the k-th of them k units from p0 along the major
\* axis (x when |dx| >= |dy|) and floor(k*m/M) units along the minor axis,
\* toward p1; so the first cell is p0, the last is p1, and a segment with
\* m = 0 stays in its row or column.
C10_ClosedForm ==
    \A c \in DOMAIN plots :
        (args[1] # args[3] \/ args[2] # args[4]) =>
            /\ Len(plots[c]) = Major + 1
            /\ \A k \in 0..Major :
                   plots[c][k + 1] = ClosedFormCell(SegOf(c), k)
            /\ plots[c][1] = <<SegOf(c)[1], SegOf(c)[2]>>
            /\ plots[c][Major + 1] = <<SegOf(c)[3], SegOf(c)[4]>>
            /\ Minor = 0 =>
                   \A k \in 1..(Major + 1) :
                       \/ plots[c][k][1] = SegOf(c)[1]
                       \/ plots[c][k][2] = SegOf(c)[2]

C10_Witness ==
    /\ Len(plots) = 2
    /\ args = <<0, 0, 3, 2>>
    /\ plots[1] = << <<0, 0>>, <<1, 0>>, <<2, 1>>, <<3, 2>> >>
    /\ plots[2] = << <<3, 2>>, <<2, 2>>, <<1, 1>>, <<0, 0>> >>

-----------------------------------------------------------------------------
(* Properties of draw_sierpinski and main, checked under Spec *)

RECURSIVE Pow3(_)
Pow3(d) == IF d = 0 THEN 1 ELSE 3 * Pow3(d - 1)

\* the draw_line invocations of top-level call k
LinesOf(k) == { i \in DOMAIN lines : lines[i].call = k }

\* top-level call k of main has returned
Completed(k) ==
    \/ pc \in {"mvaddstr", "refresh", "getch", "deinit"}
    \/ pc = "exit" /\ status = EXIT_SUCCESS
    \/ k = 1 /\ pc = "call2"
    \/ k = 1 /\ pc = "crashed" /\ ncalls[2] > 0

\* the top-level call during which the process died
CrashedIn == IF ncalls[2] > 0 THEN 2 ELSE 1

\* C4: for every triangle and depth d >= 0, draw_sierpinski(triangle, d) runs
\* to completion having invoked draw_line exactly 3*(3^d - 1)/2 times: none,
\* and no plot, at d = 0.
C4_EdgeCount ==
    /\ \A k \in 1..2 :
          (Completed(k) /\ args[k].depth >= 0) =>
              /\ Cardinality(LinesOf(k)) = (3 * (Pow3(args[k].depth) - 1)) \div 2
              /\ args[k].depth = 0 => (LinesOf(k) = {} /\ nplots[k] = 0)
    /\ pc = "crashed" => args[CrashedIn].depth < 0

C4_Witness ==
    /\ Completed(1)
    /\ args[1].depth = 2
    /\ Cardinality(LinesOf(1)) = 12
    /\ Completed(2)
    /\ args[2].depth = 0
    /\ nplots[2] = 0

\* C5: for every depth < 0, draw_sierpinski(triangle, depth) terminates at
\* once, making no recursive call and no plot call.
C5_NegativeDepthNoOp ==
    \A k \in 1..2 :
        args[k].depth < 0 =>
            /\ ncalls[k] <= 1
            /\ nplots[k] = 0
            /\ (pc = "crashed" => CrashedIn # k)

\* C6: if a write to or flush of the surface fails during the rendering pass,
\* the pass ends with a failure result: main does not exit with success.
C6_SurfaceFailureReported ==
    (pc = "exit" /\ surfErr) => status = EXIT_FAILURE

\* the coordinate-wise truncating average of two points
Midpoint(px, py, qx, qy) == <<CDiv(px + qx, 2), CDiv(py + qy, 2)>>

\* the vertices C7 gives the child triangle: one vertex of (A, B, C) and the
\* midpoints of its two adjacent edges
MidpointChild(t, which) ==
    LET A   == <<t[1], t[2]>>
        B   == <<t[3], t[4]>>
        C   == <<t[5], t[6]>>
        mAB == Midpoint(t[1], t[2], t[3], t[4])
        mAC == Midpoint(t[1], t[2], t[5], t[6])
        mBC == Midpoint(t[3], t[4], t[5], t[6])
    IN  CASE which = "left"  -> {mAB, B, mBC}
          [] which = "right" -> {mAC, mBC, C}
          [] which = "upper" -> {A, mAB, mAC}

Vertices(t) == { <<t[1], t[2]>>, <<t[3], t[4]>>, <<t[5], t[6]>> }

\* C7: at every call with depth > 0 on (A, B, C), each triangle passed to a
\* recursive call is one vertex of (A, B, C) with the truncated midpoints of
\* the two edges adjacent to it.
C7_ChildrenAreMidpointTriangles ==
    \A i \in 2..Len(stack) :
        Vertices(stack[i].tri) =
            MidpointChild(stack[i - 1].tri, stack[i].path[Len(stack[i].path)])

\* the cells draw_line plots for edge e of triangle t
EdgeCells(t, e) ==
    LET s == Edge(t, e) IN CellSet(DrawLine(s[1], s[2], s[3], s[4]))

\* C8: for every triangle processed at depth >= 2, the cells plotted for each
\* own edge X-Y are the union of the cells plotted for the two child edges
\* along it (X to the edge's midpoint vertex, that vertex to Y).
C8_BordersCoincide ==
    \A i \in DOMAIN stack :
        (stack[i].depth >= 2 /\ stack[i].at = Len(Body) + 1) =>
            LET t == stack[i].tri
                l == Child(t, "left")
                r == Child(t, "right")
                u == Child(t, "upper")
            IN  /\ EdgeCells(t, "AB") = EdgeCells(u, "AB") \cup EdgeCells(l, "AB")
                /\ EdgeCells(t, "BC") = EdgeCells(l, "BC") \cup EdgeCells(r, "BC")
                /\ EdgeCells(t, "CA") = EdgeCells(r, "CA") \cup EdgeCells(u, "CA")

RECURSIVE TriAt(_, _)
\* the triangle of the frame reached from root triangle t by the given path
TriAt(t, path) ==
    IF path = <<>> THEN t ELSE TriAt(Child(t, Head(path)), Tail(path))

ProperPrefix(p, q) == Len(p) < Len(q) /\ SubSeq(q, 1, Len(p)) = p

SameOwner(i, j) ==
    lines[i].call = lines[j].call /\ lines[i].owner = lines[j].owner

\* C9: in every call with depth > 0 the three recursive calls, and so every
\* plot of a descendant triangle, complete before the first plot of the
\* triangle's own edges, which are then drawn in the order A-B, B-C, C-A.
C9_ChildrenThenOwnEdges ==
    /\ \A i \in 1..(Len(stack) - 1) :
          \A j \in LinesOf(CallNo) : lines[j].owner # stack[i].path
    /\ \A i \in DOMAIN lines : \A j \in DOMAIN lines :
          (i < j /\ lines[i].call = lines[j].call) =>
              ~ProperPrefix(lines[i].owner, lines[j].owner)
    /\ \A i \in DOMAIN lines :
          /\ lines[i].seg = Edge(TriAt(args[lines[i].call].tri, lines[i].owner),
                                 lines[i].edge)
          /\ lines[i].edge = "AB" => (i > 1 => ~SameOwner(i - 1, i))
          /\ lines[i].edge = "BC" =>
                 (i > 1 /\ SameOwner(i - 1, i) /\ lines[i - 1].edge = "AB")
          /\ lines[i].edge = "CA" =>
                 (i > 1 /\ SameOwner(i - 1, i) /\ lines[i - 1].edge = "BC")

\* a depth-2 call about to return: nine edges of its children's, then its own
C9_Witness ==
    /\ pc = "call1"
    /\ Len(stack) = 1
    /\ Top.depth = 2
    /\ Top.at = Len(Body) + 1
    /\ Len(lines) = 12
    /\ \A i \in 1..9 : lines[i].owner # <<>>
    /\ lines[10].owner = <<>> /\ lines[10].edge = "AB"
    /\ lines[11].owner = <<>> /\ lines[11].edge = "BC"
    /\ lines[12].owner = <<>> /\ lines[12].edge = "CA"

====
